---------------------------- MODULE Spec2Model ----------------------------
(***************************************************************************)
(* State machine of the Christie DHD800 Companion module, src/main.js      *)
(* lines 1-377 (class ChristieDHD800Instance; lines 379-622 of that file   *)
(* are an older revision of the same class and are not modelled).          *)
(*                                                                         *)
(* Strings are modelled as sequences of one-character strings so that the  *)
(* regular expressions of the data handlers are computed, not assumed.     *)
(* The TCPHelper of @companion-module/base is the environment: a socket    *)
(* connects after construction, delivers "data" chunks while it is         *)
(* connected and not destroyed, may raise "error", and destroy() removes   *)
(* every listener.                                                         *)
(***************************************************************************)
EXTENDS Naturals, Sequences, FiniteSets

(***************************************************************************)
(* Bounds of the model.                                                    *)
(***************************************************************************)
\* TCPHelper objects, ad-hoc and poll, that exist at one time: not destroyed,
\* or destroyed with the linger timer of their session still pending.
MaxSockets == 2
\* checkFeedbacksById calls counted per status-query exchange.
MaxChecks == 2
\* Characters of consecutive data chunks of one socket kept in SpecChunks.
MaxText == 16

(***************************************************************************)
(* Strings.                                                                *)
(***************************************************************************)
CR == <<"\r">>
Lower == <<"a","b","c","d","e","f","g","h","i","j","k","l","m",
           "n","o","p","q","r","s","t","u","v","w","x","y","z">>
Upper == <<"A","B","C","D","E","F","G","H","I","J","K","L","M",
           "N","O","P","Q","R","S","T","U","V","W","X","Y","Z">>
HexDigits == {"0","1","2","3","4","5","6","7","8","9","A","B","C","D","E","F"}

\* Case folding of the /i flag.
ToUpper(c) ==
    IF \E i \in 1..Len(Lower) : Lower[i] = c
    THEN Upper[CHOOSE i \in 1..Len(Lower) : Lower[i] = c]
    ELSE c

\* RegExp.test of a literal pattern with the /i flag: pat occurs in str.
TestI(pat, str) ==
    \E i \in 0..(Len(str) - Len(pat)) :
        \A j \in 1..Len(pat) : ToUpper(str[i + j]) = pat[j]

\* /PASSWORD:/i.test(str)
HasPassword(str) == TestI(<<"P","A","S","S","W","O","R","D",":">>, str)

\* /HELLO/i.test(str)
HasHello(str) == TestI(<<"H","E","L","L","O">>, str)

IsHex(c) == ToUpper(c) \in HexDigits

\* str.match(/([0-9A-F]{2})/i): the leftmost two adjacent hex characters,
\* as written in str; <<>> when there is no match (null).
Match2(str) ==
    LET hits == {i \in 1..(Len(str) - 1) : IsHex(str[i]) /\ IsHex(str[i + 1])}
    IN  IF hits = {} THEN <<>>
        ELSE LET i == CHOOSE h \in hits : \A g \in hits : h <= g
             IN  <<str[i], str[i + 1]>>

\* str.match(/([0-9A-F])/i): the leftmost hex character; <<>> when none.
Match1(str) ==
    LET hits == {i \in 1..Len(str) : IsHex(str[i])}
    IN  IF hits = {} THEN <<>>
        ELSE <<str[CHOOSE h \in hits : \A g \in hits : h <= g]>>

(***************************************************************************)
(* Command codes and action identifiers.                                   *)
(***************************************************************************)
NoCode == <<>>
CR0 == <<"C","R","0">>
CR1 == <<"C","R","1">>

\* Variant of ExecuteCode: the cases of menu_on and menu_off are exchanged.
ExecuteCodeSwapped(action) ==
    CASE action = "power_on"  -> <<"C","0","0">>
      [] action = "power_off" -> <<"C","0","1">>
      [] action = "input_1"   -> <<"C","0","5">>
      [] action = "input_2"   -> <<"C","0","6">>
      [] action = "input_3"   -> <<"C","0","7">>
      [] action = "input_4"   -> <<"C","0","8">>
      [] action = "menu_on"   -> <<"C","1","D">>
      [] action = "menu_off"  -> <<"C","1","C">>
      [] OTHER                -> NoCode

\* Variant of ExecuteCode: a default case sends the power-on code.
ExecuteCodeDefault(action) ==
    CASE action = "power_on"  -> <<"C","0","0">>
      [] action = "power_off" -> <<"C","0","1">>
      [] action = "input_1"   -> <<"C","0","5">>
      [] action = "input_2"   -> <<"C","0","6">>
      [] action = "input_3"   -> <<"C","0","7">>
      [] action = "input_4"   -> <<"C","0","8">>
      [] action = "menu_on"   -> <<"C","1","C">>
      [] action = "menu_off"  -> <<"C","1","D">>
      [] OTHER                -> <<"C","0","0">>

\* The switch of executeAction: the code passed to sendCommand, NoCode when
\* no case matches.
ExecuteCode(action) ==
    CASE action = "power_on"  -> <<"C","0","0">>
      [] action = "power_off" -> <<"C","0","1">>
      [] action = "input_1"   -> <<"C","0","5">>
      [] action = "input_2"   -> <<"C","0","6">>
      [] action = "input_3"   -> <<"C","0","7">>
      [] action = "input_4"   -> <<"C","0","8">>
      [] action = "menu_on"   -> <<"C","1","C">>
      [] action = "menu_off"  -> <<"C","1","D">>
      [] OTHER                -> NoCode

\* The table of updateActions: the code each published callback sends.
CallbackCode(action) ==
    CASE action = "power_on"  -> <<"C","0","0">>
      [] action = "power_off" -> <<"C","0","1">>
      [] action = "input_1"   -> <<"C","0","5">>
      [] action = "input_2"   -> <<"C","0","6">>
      [] action = "input_3"   -> <<"C","0","7">>
      [] action = "input_4"   -> <<"C","0","8">>
      [] action = "menu_on"   -> <<"C","1","C">>
      [] action = "menu_off"  -> <<"C","1","D">>
      [] OTHER                -> NoCode

SupportedActions == {"power_on", "power_off", "input_1", "input_2",
                     "input_3", "input_4", "menu_on", "menu_off"}


\* Action identifiers the host invokes in Spec: a supported one and one that
\* no case of the switch matches.
ActionIds == {"power_on", "unknown_action"}

(***************************************************************************)
(* Configurations and device data.                                         *)
(***************************************************************************)
NoHost == <<>>
HostA == <<"h">>
NoPassword == <<>>
PasswordA == <<"p","w">>
PasswordB == <<"x">>

\* The constructor leaves this.config undefined.
NoConfig == [defined |-> FALSE, host |-> NoHost, password |-> NoPassword]

\* Configurations the host passes to init and configUpdated.
Configs == {[defined |-> TRUE, host |-> NoHost, password |-> PasswordA],
            [defined |-> TRUE, host |-> HostA, password |-> NoPassword]}

\* !this.config.host / !this.config?.host is false: a host is configured.
HostSet(cfg) == cfg.defined /\ cfg.host # NoHost

\* this.config.password || ""
Pass(cfg) == IF cfg.password = NoPassword THEN <<>> ELSE cfg.password

\* Data chunks the device may deliver on a socket.
ChunkPassword == <<"P","A","S","S","W","O","R","D",":","\r">>
ChunkHello == <<"H","e","l","l","o","\r">>
ChunkBoth == <<"P","A","S","S","W","O","R","D",":","\r","H","E","L","L","O","\r">>
Chunk00 == <<"0","0","\r">>
Chunk3 == <<"3","\r">>
ChunkOther == <<"O","K","\r">>
Chunks == {ChunkPassword, ChunkHello, ChunkBoth, Chunk00, Chunk3, ChunkOther}

\* The prompts as TCP may deliver them: each cut into two segments.
ChunkPass == <<"P","A","S","S">>
ChunkWord == <<"W","O","R","D",":","\r">>
ChunkHel == <<"H","E","L">>
ChunkLo == <<"L","O","\r">>
SplitChunks == {ChunkPass, ChunkWord, ChunkHel, ChunkLo}

\* What the regular expressions of the handlers find in each chunk,
\* computed once per chunk.
Scanned ==
    [str \in Chunks \cup SplitChunks |-> [password |-> HasPassword(str), hello |-> HasHello(str),
                         two |-> Match2(str), one |-> Match1(str)]]

\* this.powerState / this.inputState hold undefined.
Undefined == <<>>

(***************************************************************************)
(* State.                                                                  *)
(***************************************************************************)
VARIABLES
    config,      \* this.config
    socket,      \* this.socket: index into socks, 0 when undefined
    pollTimer,   \* this.pollTimer is set
    timers,      \* interval timers armed and not cleared
    powerState,  \* this.powerState
    inputState,  \* this.inputState
    socks,       \* the TCPHelpers that exist, with their sessions' closures
    crashed,     \* an exception escaped an event handler
    published,   \* the definitions the instance has given to the host:
                 \* the host methods setActionDefinitions and
                 \* setFeedbackDefinitions that were called
    last         \* the operation that ran last, the error it logged, the
                 \* status it gave to updateStatus and the other methods of
                 \* the host it called

vars == <<config, socket, pollTimer, timers, powerState, inputState, socks,
          crashed, published, last>>

\* The state other than last: what the instance and its sockets hold.
held == <<config, socket, pollTimer, timers, powerState, inputState, socks,
          crashed, published>>

\* A TCPHelper and the closure of the session that created it.
\*   kind          "cmd" (sendCommand), "poll" (queryState), "none" (no object)
\*   open          not destroyed
\*   conn          "connecting", "connected", "failed" or "closed"
\*   passwordSent, commandSent, helloReceived, pass, cmd   the session's locals
\*   rs, step, responses, rsFinish   requestState's listener and its locals
\*   writes        payloads written to the socket, in order
\*   linger        the 1000 ms timer of the session is pending
\*   checks        checkFeedbacksById calls made by the exchange
\*   seenPw, seenHello   a chunk holding PASSWORD: was delivered; a later
\*                 chunk holding HELLO was delivered
NewSock(kind, cfg, cmd) ==
    [kind |-> kind, open |-> TRUE, conn |-> "connecting",
     passwordSent |-> FALSE, commandSent |-> FALSE, helloReceived |-> FALSE,
     pass |-> Pass(cfg), cmd |-> cmd,
     rs |-> FALSE, step |-> 0, responses |-> <<>>, rsFinish |-> FALSE,
     writes |-> <<>>, linger |-> FALSE, checks |-> 0,
     seenPw |-> FALSE, seenHello |-> FALSE]

NoSock == [NewSock("none", NoConfig, NoCode) EXCEPT !.open = FALSE, !.conn = "closed"]

\* A place of socks holds no object that can still act: its socket is
\* destroyed (or never was) and no timer of its session is pending.
Vacant(k) == ~k.open /\ ~k.linger

\* new TCPHelper(...): the object takes the first vacant place.
CanAlloc(M) == \E s \in DOMAIN M.socks : Vacant(M.socks[s])
Alloc(M) ==
    CHOOSE s \in DOMAIN M.socks :
        Vacant(M.socks[s]) /\ \A t \in DOMAIN M.socks : Vacant(M.socks[t]) => s <= t

\* The part of the state the handlers read and write, as one value.
\* calls: the methods of the host, other than log and updateStatus, that the
\* handler has called.
Cur == [socks |-> socks, socket |-> socket, powerState |-> powerState,
        inputState |-> inputState, crashed |-> crashed, calls |-> {}]

Ev(op, arg, log, st) ==
    [op |-> op, arg |-> arg, log |-> log, status |-> st, calls |-> {}]

Init ==
    /\ config = NoConfig
    /\ socket = 0
    /\ pollTimer = FALSE
    /\ timers = 0
    /\ powerState = Undefined
    /\ inputState = Undefined
    /\ socks = [s \in 1..MaxSockets |-> NoSock]
    /\ crashed = FALSE
    /\ published = {}
    /\ last = Ev("constructor", "", "", "")

(***************************************************************************)
(* TCPHelper operations.                                                   *)
(***************************************************************************)
\* What remains of a socket once it is destroyed: no listener of it runs
\* again, so the object and the closure of its session are unreachable;
\* only a pending linger timer of the session remains.
Dead(k) ==
    IF k.linger THEN [NoSock EXCEPT !.kind = k.kind, !.linger = TRUE] ELSE NoSock

\* TCPHelper.destroy(): idempotent; removes all listeners and closes the
\* connection.
DestroySock(M, t) == [M EXCEPT !.socks[t] = Dead(@)]

\* TCPHelper.send(payload) on socket t: the write reaches the wire when the
\* socket is connected; on a destroyed socket send rejects, and nothing here
\* handles the rejection.
Send(M, t, payload) ==
    IF ~M.socks[t].open THEN [M EXCEPT !.crashed = TRUE]
    ELSE IF M.socks[t].conn # "connected" THEN M
    ELSE [M EXCEPT !.socks[t].writes = Append(@, payload)]

(***************************************************************************)
(* requestState(socket, onFinish).                                         *)
(***************************************************************************)
\* Registers the data listener with step = 0 and responses = [], then
\* sends CR0.  fin: an onFinish callback (socket.destroy) was given.
RequestState(M, t, fin) ==
    Send([M EXCEPT !.socks[t].rs = TRUE, !.socks[t].step = 0,
                   !.socks[t].responses = <<>>, !.socks[t].rsFinish = fin],
         t, CR0 \o CR)

\* socket.removeListener("data", parse): the listener registered on line 50
\* is the arrow function wrapping parse, not parse, so nothing is removed.
RemoveParse(M, s) == M

\* responses.push(tok).
Push(responses, tok) == Append(responses, tok)

\* Variant of Finish: the completion callback is not called.
FinishNoCallback(M, s) ==
    LET M1 == RemoveParse(M, s)
    IN  [M1 EXCEPT !.powerState = M1.socks[s].responses[1],
                   !.inputState = M1.socks[s].responses[2],
                   !.socks[s].checks = @ + 1,
                   !.calls = @ \cup {"checkFeedbacksById"}]

\* Variant of Finish: only the input token is stored.
FinishInputOnly(M, s) ==
    LET M1 == RemoveParse(M, s)
        M2 == [M1 EXCEPT !.inputState = M1.socks[s].responses[2],
                         !.socks[s].checks = @ + 1,
                         !.calls = @ \cup {"checkFeedbacksById"}]
    IN  IF M2.socks[s].rsFinish THEN DestroySock(M2, s) ELSE M2

\* The else branch of parse: the exchange completes.
Finish(M, s) ==
    LET M1 == RemoveParse(M, s)
        M2 == [M1 EXCEPT !.powerState = M1.socks[s].responses[1],
                         !.inputState = M1.socks[s].responses[2],
                         !.socks[s].checks = @ + 1,
                         !.calls = @ \cup {"checkFeedbacksById"}]
    IN  IF M2.socks[s].rsFinish THEN DestroySock(M2, s) ELSE M2

\* Variant of Parse: the power token is stored as soon as it is parsed.
ParseEager(M, s, str) ==
    LET k == M.socks[s]
        match == IF k.step = 0 THEN Scanned[str].two ELSE Scanned[str].one
    IN  IF match = <<>> THEN M
        ELSE LET M1 == [M EXCEPT !.socks[s].responses = Push(@, match)]
             IN  IF k.step = 0
                 THEN Send([M1 EXCEPT !.socks[s].step = 1, !.powerState = match],
                           s, CR1 \o CR)
                 ELSE Finish(M1, s)

\* Variant of Parse: step is not advanced, so every two-digit reply is taken
\* as a power reply and answered with CR1.
ParseNoStep(M, s, str) ==
    LET k == M.socks[s]
        match == IF k.step = 0 THEN Scanned[str].two ELSE Scanned[str].one
    IN  IF match = <<>> THEN M
        ELSE LET M1 == [M EXCEPT !.socks[s].responses = Push(@, match)]
             IN  IF k.step = 0
                 THEN Send(M1, s, CR1 \o CR)
                 ELSE Finish(M1, s)

\* parse(str), the listener requestState registered on socket s.
Parse(M, s, str) ==
    LET k == M.socks[s]
        match == IF k.step = 0 THEN Scanned[str].two ELSE Scanned[str].one
    IN  IF match = <<>> THEN M
        ELSE LET M1 == [M EXCEPT !.socks[s].responses = Push(@, match)]
             IN  IF k.step = 0
                 THEN Send([M1 EXCEPT !.socks[s].step = 1], s, CR1 \o CR)
                 ELSE Finish(M1, s)

(***************************************************************************)
(* sendCommand(cmd) and its data listener.                                 *)
(***************************************************************************)
\* Variant of CmdOnData: HELLO is answered without the password having been
\* sent.
CmdOnDataNoWait(M, s, str) ==
    LET k == M.socks[s]
    IN  IF ~k.passwordSent /\ Scanned[str].password
        THEN [Send(M, s, k.pass \o CR) EXCEPT !.socks[s].passwordSent = TRUE]
        ELSE IF ~k.commandSent /\ Scanned[str].hello
        THEN LET M1 == [Send(M, s, k.cmd \o CR)
                           EXCEPT !.socks[s].commandSent = TRUE]
                 M2 == RequestState(M1, s, FALSE)
             IN  [M2 EXCEPT !.socks[s].linger = TRUE]
        ELSE M

\* Variant of CmdOnData: HELLO is answered every time it is seen.
CmdOnDataResend(M, s, str) ==
    LET k == M.socks[s]
    IN  IF ~k.passwordSent /\ Scanned[str].password
        THEN [Send(M, s, k.pass \o CR) EXCEPT !.socks[s].passwordSent = TRUE]
        ELSE IF k.passwordSent /\ Scanned[str].hello
        THEN LET M1 == [Send(M, s, k.cmd \o CR)
                           EXCEPT !.socks[s].commandSent = TRUE]
                 M2 == RequestState(M1, s, FALSE)
             IN  [M2 EXCEPT !.socks[s].linger = TRUE]
        ELSE M

\* Variant of CmdOnData: the status query is given a completion callback
\* that destroys the socket, as in queryState.
CmdOnDataClose(M, s, str) ==
    LET k == M.socks[s]
    IN  IF ~k.passwordSent /\ Scanned[str].password
        THEN IF M.socket = 0 THEN [M EXCEPT !.crashed = TRUE]
             ELSE [Send(M, M.socket, k.pass \o CR)
                      EXCEPT !.socks[s].passwordSent = TRUE]
        ELSE IF k.passwordSent /\ ~k.commandSent /\ Scanned[str].hello
        THEN IF M.socket = 0 THEN [M EXCEPT !.crashed = TRUE]
             ELSE LET M1 == [Send(M, M.socket, k.cmd \o CR)
                                EXCEPT !.socks[s].commandSent = TRUE]
                      M2 == RequestState(M1, M1.socket, TRUE)
                  IN  [M2 EXCEPT !.socks[s].linger = TRUE]
        ELSE M

\* The "data" listener of the ad-hoc session created on socket s.  It sends
\* through this.socket, which throws a TypeError when the field is undefined.
CmdOnData(M, s, str) ==
    LET k == M.socks[s]
    IN  IF ~k.passwordSent /\ Scanned[str].password
        THEN IF M.socket = 0 THEN [M EXCEPT !.crashed = TRUE]
             ELSE [Send(M, M.socket, k.pass \o CR)
                      EXCEPT !.socks[s].passwordSent = TRUE]
        ELSE IF k.passwordSent /\ ~k.commandSent /\ Scanned[str].hello
        THEN IF M.socket = 0 THEN [M EXCEPT !.crashed = TRUE]
             ELSE LET M1 == [Send(M, M.socket, k.cmd \o CR)
                                EXCEPT !.socks[s].commandSent = TRUE]
                      M2 == RequestState(M1, M1.socket, FALSE)
                  IN  [M2 EXCEPT !.socks[s].linger = TRUE]
        ELSE M

\* Variant of LingerFire: the callback destroys nothing.
LingerFireKeep(M) == M

\* The callback of setTimeout(..., 1000): this.socket.destroy();
\* this.socket = undefined.
LingerFire(M) ==
    IF M.socket = 0 THEN [M EXCEPT !.crashed = TRUE]
    ELSE [DestroySock(M, M.socket) EXCEPT !.socket = 0]

\* Variant of ClosePrevious: the reference is cleared and the socket is not
\* destroyed.
ClosePreviousForget(M) == [M EXCEPT !.socket = 0]

\* Variant of ClosePrevious: the previous socket is left as it is.
ClosePreviousKeep(M) == M

\* if (this.socket) { this.socket.destroy(); this.socket = undefined; }
ClosePrevious(M) ==
    IF M.socket # 0 THEN [DestroySock(M, M.socket) EXCEPT !.socket = 0] ELSE M

\* sendCommand(cmd) once a host is configured: the previous socket is
\* destroyed and a new TCPHelper becomes this.socket.
OpenCommand(M, cfg, cmd) ==
    LET M1 == ClosePrevious(M)
        n  == Alloc(M1)
    IN  [M1 EXCEPT !.socks[n] = NewSock("cmd", cfg, cmd), !.socket = n]

\* The error sendCommand logs, "" when it logs none.
SendCommandLog(cfg) == IF ~HostSet(cfg) THEN "Host not configured" ELSE ""

\* Variant of SendCommand: the host is not checked.
SendCommandNoCheck(M, cfg, cmd) == OpenCommand(M, cfg, cmd)

SendCommand(M, cfg, cmd) ==
    IF ~HostSet(cfg) THEN M ELSE OpenCommand(M, cfg, cmd)

(***************************************************************************)
(* queryState() and its data listener.                                     *)
(***************************************************************************)
\* Variant of PollOnData: the password is sent whenever PASSWORD: is seen.
PollOnDataRepeat(M, s, str) ==
    LET k == M.socks[s]
    IN  IF Scanned[str].password
        THEN [Send(M, s, k.pass \o CR) EXCEPT !.socks[s].passwordSent = TRUE]
        ELSE IF k.passwordSent /\ ~k.helloReceived /\ Scanned[str].hello
        THEN RequestState([M EXCEPT !.socks[s].helloReceived = TRUE], s, TRUE)
        ELSE M

\* Variant of PollOnData: the two tests are separate if statements, so one
\* chunk can take both branches.
PollOnDataBoth(M, s, str) ==
    LET M1 == IF ~M.socks[s].passwordSent /\ Scanned[str].password
              THEN [Send(M, s, M.socks[s].pass \o CR)
                       EXCEPT !.socks[s].passwordSent = TRUE]
              ELSE M
    IN  IF M1.socks[s].passwordSent /\ ~M1.socks[s].helloReceived
           /\ Scanned[str].hello
        THEN RequestState([M1 EXCEPT !.socks[s].helloReceived = TRUE], s, TRUE)
        ELSE M1

\* Variant of PollOnData: the password is read from this.config when the
\* prompt arrives.
PollOnDataCurrent(M, s, str) ==
    LET k == M.socks[s]
    IN  IF ~k.passwordSent /\ Scanned[str].password
        THEN [Send(M, s, Pass(config) \o CR) EXCEPT !.socks[s].passwordSent = TRUE]
        ELSE IF k.passwordSent /\ ~k.helloReceived /\ Scanned[str].hello
        THEN RequestState([M EXCEPT !.socks[s].helloReceived = TRUE], s, TRUE)
        ELSE M

\* processData(str) of the poll session created on socket s.
PollOnData(M, s, str) ==
    LET k == M.socks[s]
    IN  IF ~k.passwordSent /\ Scanned[str].password
        THEN [Send(M, s, k.pass \o CR) EXCEPT !.socks[s].passwordSent = TRUE]
        ELSE IF k.passwordSent /\ ~k.helloReceived /\ Scanned[str].hello
        THEN RequestState([M EXCEPT !.socks[s].helloReceived = TRUE], s, TRUE)
        ELSE M

\* Variant of QueryState: the cycle is skipped while the socket of an earlier
\* cycle is not destroyed.
QueryStateSkip(M, cfg) ==
    IF ~HostSet(cfg) THEN M
    ELSE IF \E s \in DOMAIN M.socks : M.socks[s].open /\ M.socks[s].kind = "poll"
    THEN M
    ELSE [M EXCEPT !.socks[Alloc(M)] = NewSock("poll", cfg, NoCode)]

\* Variant of QueryState: the socket of the cycle is kept in this.socket.
QueryStateShared(M, cfg) ==
    IF ~HostSet(cfg) THEN M
    ELSE [M EXCEPT !.socks[Alloc(M)] = NewSock("poll", cfg, NoCode),
                   !.socket = Alloc(M)]

\* Variant of QueryState: the host is not checked.
QueryStateNoCheck(M, cfg) ==
    IF ~CanAlloc(M) THEN M
    ELSE [M EXCEPT !.socks[Alloc(M)] = NewSock("poll", cfg, NoCode)]

QueryState(M, cfg) ==
    IF ~HostSet(cfg) THEN M
    ELSE [M EXCEPT !.socks[Alloc(M)] = NewSock("poll", cfg, NoCode)]

(***************************************************************************)
(* Lifecycle: init, configUpdated, initTCP, destroy.                       *)
(***************************************************************************)
\* Variant of InitTCP: the cached device state is cleared as well.
InitTCPReset(M) ==
    [(IF M.socket # 0 THEN [DestroySock(M, M.socket) EXCEPT !.socket = 0] ELSE M)
        EXCEPT !.powerState = Undefined, !.inputState = Undefined]

\* Variant of InitTCP: every socket of the instance is destroyed.
InitTCPAll(M) ==
    [M EXCEPT !.socks = [s \in DOMAIN M.socks |-> Dead(M.socks[s])], !.socket = 0]

\* Variant of InitTCP: the reference is deleted and the socket is not
\* destroyed.
InitTCPForget(M) == [M EXCEPT !.socket = 0]

\* initTCP(): destroys and forgets this.socket.
InitTCP(M) ==
    IF M.socket # 0 THEN [DestroySock(M, M.socket) EXCEPT !.socket = 0] ELSE M

\* Variant of Teardown: the cached device state is cleared as well.
TeardownReset(M) ==
    [(IF M.socket # 0 THEN [DestroySock(M, M.socket) EXCEPT !.socket = 0] ELSE M)
        EXCEPT !.powerState = Undefined, !.inputState = Undefined]

\* Variant of Teardown: the reference is deleted and the socket is not
\* destroyed.
TeardownForget(M) == [M EXCEPT !.socket = 0]

\* destroy(), after the timer: this.socket is destroyed and deleted.
Teardown(M) ==
    IF M.socket # 0 THEN [DestroySock(M, M.socket) EXCEPT !.socket = 0] ELSE M

\* Variant of Rearm: the previous interval timer is not cleared.
RearmLeak(had, n) == n + 1

\* Interval timers armed after "if (this.pollTimer) clearInterval(...)"
\* followed by setInterval.
Rearm(had, n) == (IF had THEN n - 1 ELSE n) + 1

\* Interval timers armed after destroy's clearInterval.
Disarm(had, n) == IF had THEN n - 1 ELSE n

\* An operation that opens a socket when a host is configured fits in the
\* model's bound: M is the state in which the TCPHelper is constructed.
Fits(M, cfg) == HostSet(cfg) => CanAlloc(M)

Commit(M) ==
    /\ socks' = M.socks
    /\ socket' = M.socket
    /\ powerState' = M.powerState
    /\ inputState' = M.inputState
    /\ crashed' = M.crashed

\* updateActions() ends with this.setActionDefinitions(actions), and
\* updateFeedbacks() with this.setFeedbackDefinitions(feedbacks): P is the
\* set of host methods called so far.
UpdateActions(P) == P \cup {"setActionDefinitions"}
UpdateFeedbacks(P) == P \cup {"setFeedbackDefinitions"}

init(c) ==
    /\ ~crashed
    /\ Fits(Cur, c)
    /\ config' = c
    /\ published' = UpdateFeedbacks(UpdateActions(published))
    /\ timers' = Rearm(pollTimer, timers)
    /\ pollTimer' = TRUE
    /\ Commit(QueryState(Cur, c))
    /\ last' = [Ev("init", "", "", "ok")
                   EXCEPT !.calls = UpdateFeedbacks(UpdateActions({}))]

configUpdated(c) ==
    /\ ~crashed
    /\ Fits(InitTCP(Cur), c)
    /\ config' = c
    /\ timers' = Rearm(pollTimer, timers)
    /\ pollTimer' = TRUE
    /\ Commit(QueryState(InitTCP(Cur), c))
    /\ last' = Ev("configUpdated", "", "", "ok")
    /\ UNCHANGED published

destroy ==
    /\ ~crashed
    /\ timers' = Disarm(pollTimer, timers)
    /\ pollTimer' = FALSE
    /\ Commit(Teardown(Cur))
    /\ last' = Ev("destroy", "", "", "")
    /\ UNCHANGED <<config, published>>

\* executeAction({action}).  The host invokes actions of an initialised
\* instance: before init this.config is undefined.
executeAction(action) ==
    /\ ~crashed
    /\ LET cmd == ExecuteCode(action)
       IN  IF cmd = NoCode
           THEN /\ Commit(Cur)
                /\ last' = Ev("executeAction", action, "", "")
           ELSE /\ config.defined
                /\ Fits(ClosePrevious(Cur), config)
                /\ Commit(SendCommand(Cur, config, cmd))
                /\ last' = Ev("executeAction", action, SendCommandLog(config), "")
    /\ UNCHANGED <<config, pollTimer, timers, published>>

\* The host runs the callback published for an action by updateActions.
actionCallback(action) ==
    /\ ~crashed
    /\ action \in SupportedActions
    /\ "setActionDefinitions" \in published
    /\ Fits(ClosePrevious(Cur), config)
    /\ Commit(SendCommand(Cur, config, CallbackCode(action)))
    /\ last' = Ev("callback", action, SendCommandLog(config), "")
    /\ UNCHANGED <<config, pollTimer, timers, published>>

\* The interval timer fires: queryState().
pollTick ==
    /\ ~crashed
    /\ timers > 0
    /\ Fits(Cur, config)
    /\ Commit(QueryState(Cur, config))
    /\ last' = Ev("pollTick", "", "", "")
    /\ UNCHANGED <<config, pollTimer, timers, published>>

(***************************************************************************)
(* Socket and timer events.                                                *)
(***************************************************************************)
Live(s) == socks[s].open

\* "connect": the listener of sendCommand does nothing; status_change
\* reports ok for an ad-hoc socket.
onConnect(s) ==
    /\ ~crashed
    /\ Live(s)
    /\ socks[s].conn = "connecting"
    /\ socks' = [socks EXCEPT ![s].conn = "connected"]
    /\ last' = Ev("connect", "", "", IF socks[s].kind = "cmd" THEN "ok" ELSE "")
    /\ UNCHANGED <<config, socket, pollTimer, timers, powerState, inputState,
                   crashed, published>>

\* The chunk is noted on the socket before its listeners run.
Note(M, s, str) ==
    [M EXCEPT !.socks[s].seenPw = @ \/ Scanned[str].password,
              !.socks[s].seenHello = @ \/ (M.socks[s].seenPw /\ Scanned[str].hello)]

\* emit("data", str) on socket s: the session's listener, then the listener
\* of requestState when it was registered before this chunk.
Deliver(M, s, str) ==
    LET M1 == IF M.socks[s].kind = "cmd" THEN CmdOnData(M, s, str)
              ELSE PollOnData(M, s, str)
    IN  IF M.socks[s].rs /\ ~M1.crashed THEN Parse(M1, s, str) ELSE M1

onData(s, str) ==
    /\ ~crashed
    /\ Live(s)
    /\ socks[s].conn = "connected"
    /\ LET M == Deliver(Note(Cur, s, str), s, str)
       IN  /\ \A t \in DOMAIN M.socks : M.socks[t].checks <= MaxChecks
           /\ Commit(M)
           /\ last' = [Ev("event", "", "", "") EXCEPT !.calls = M.calls]
    /\ UNCHANGED <<config, pollTimer, timers, published>>

\* "error": sendCommand logs it and status_change reports it, and the
\* TCPHelper (reconnect defaults to true) starts connecting again;
\* queryState swallows it and, with reconnect: false, the socket stays failed.
onError(s) ==
    /\ ~crashed
    /\ Live(s)
    /\ socks[s].conn \in {"connecting", "connected"}
    /\ socks' = [socks EXCEPT ![s].conn =
                    IF socks[s].kind = "cmd" THEN "connecting" ELSE "failed"]
    /\ last' = IF socks[s].kind = "cmd"
               THEN Ev("error", "", "Network error", "unknown_error")
               ELSE Ev("error", "", "", "")
    /\ UNCHANGED <<config, socket, pollTimer, timers, powerState, inputState,
                   crashed, published>>

\* The linger timer of the session created on socket s fires.
onLinger(s) ==
    /\ ~crashed
    /\ socks[s].linger
    /\ Commit(LingerFire([Cur EXCEPT !.socks[s].linger = FALSE]))
    /\ last' = Ev("event", "", "", "")
    /\ UNCHANGED <<config, pollTimer, timers, published>>

Next ==
    \/ \E c \in Configs : init(c)
    \/ \E c \in Configs : configUpdated(c)
    \/ destroy
    \/ \E a \in ActionIds : executeAction(a)
    \/ \E a \in ActionIds : actionCallback(a)
    \/ pollTick
    \/ \E s \in 1..MaxSockets : onConnect(s)
    \/ \E s \in 1..MaxSockets, str \in Chunks : onData(s, str)
    \/ \E s \in 1..MaxSockets : onError(s)
    \/ \E s \in 1..MaxSockets : onLinger(s)

Spec == Init /\ [][Next]_vars

\* Every action identifier, on an instance the host has initialised with a
\* host: the state init leaves (timer armed, first poll cycle started),
\* followed by ad-hoc sessions only.
AllActionIds == SupportedActions \cup {"unknown_action"}

HostConfig == [defined |-> TRUE, host |-> HostA, password |-> NoPassword]

InitActions ==
    /\ config = HostConfig
    /\ socket = 0
    /\ pollTimer = TRUE
    /\ timers = 1
    /\ powerState = Undefined
    /\ inputState = Undefined
    /\ socks = [s \in 1..MaxSockets |->
                  IF s = 1 THEN NewSock("poll", HostConfig, NoCode) ELSE NoSock]
    /\ crashed = FALSE
    /\ published = UpdateFeedbacks(UpdateActions({}))
    /\ last = [Ev("init", "", "", "ok")
                  EXCEPT !.calls = UpdateFeedbacks(UpdateActions({}))]

NextActions ==
    \/ \E a \in AllActionIds : executeAction(a)
    \/ \E a \in AllActionIds : actionCallback(a)
    \/ \E s \in 1..MaxSockets : onConnect(s)
    \/ \E s \in 1..MaxSockets, str \in Chunks : onData(s, str)
    \/ \E s \in 1..MaxSockets : onLinger(s)

SpecActions == InitActions /\ [][NextActions]_vars

\* The text socket s has received in the consecutive data events that end
\* with chunk str: data.toString() of each, concatenated.
Received(s, str) ==
    IF last.op = "data" /\ last.arg = s THEN last.log \o str ELSE str

\* emit("data", str) on socket s, with the chunk and the text of the
\* consecutive chunks of the socket recorded beside what the listeners did.
onSegment(s, str) ==
    /\ ~crashed
    /\ Live(s)
    /\ socks[s].conn = "connected"
    /\ Len(Received(s, str)) <= MaxText
    /\ LET M == Deliver(Note(Cur, s, str), s, str)
       IN  /\ \A t \in DOMAIN M.socks : M.socks[t].checks <= MaxChecks
           /\ Commit(M)
           /\ last' = [op |-> "data", arg |-> s, log |-> Received(s, str),
                       status |-> "", calls |-> M.calls, chunk |-> str]
    /\ UNCHANGED <<config, pollTimer, timers, published>>

\* An initialised instance whose device delivers its prompts whole, cut
\* into segments or both in one chunk.
NextChunks ==
    \/ executeAction("power_on")
    \/ \E s \in 1..MaxSockets : onConnect(s)
    \/ \E s \in 1..MaxSockets :
          \E str \in SplitChunks \cup {ChunkPassword, ChunkHello, ChunkBoth} :
              onSegment(s, str)
    \/ \E s \in 1..MaxSockets : onLinger(s)

SpecChunks == InitActions /\ [][NextChunks]_vars

\* Configurations with a host that differ in their password only.
PasswordConfigs ==
    {[defined |-> TRUE, host |-> HostA, password |-> p] :
        p \in {NoPassword, PasswordA, PasswordB}}

\* An instance whose password is reconfigured while its sessions wait for
\* the device's prompts.
NextPasswords ==
    \/ \E c \in PasswordConfigs : init(c)
    \/ \E c \in PasswordConfigs : configUpdated(c)
    \/ executeAction("power_on")
    \/ pollTick
    \/ \E s \in 1..MaxSockets : onConnect(s)
    \/ \E s \in 1..MaxSockets :
          \E str \in {ChunkPassword, ChunkHello} : onSegment(s, str)
    \/ \E s \in 1..MaxSockets : onLinger(s)

SpecPasswords == Init /\ [][NextPasswords]_vars

(***************************************************************************)
(* What the host asks of the instance: getConfigFields and the callbacks   *)
(* of the feedbacks published by updateFeedbacks.                          *)
(***************************************************************************)
\* Variant of GetConfigFields: the password field is missing.
GetConfigFieldsNoPassword ==
    << [type |-> "textinput", id |-> "host", label |-> "Projector IP",
        width |-> 6, regex |-> "Regex.HOSTNAME"],
       [type |-> "textinput", id |-> "port", label |-> "Port",
        width |-> 6, regex |-> "Regex.PORT", default |-> 10000] >>

\* getConfigFields(): the literal it returns.  Regex.HOSTNAME and Regex.PORT
\* are constants of @companion-module/base, kept by name.
GetConfigFields ==
    << [type |-> "textinput", id |-> "host", label |-> "Projector IP",
        width |-> 6, regex |-> "Regex.HOSTNAME"],
       [type |-> "textinput", id |-> "port", label |-> "Port",
        width |-> 6, regex |-> "Regex.PORT", default |-> 10000],
       [type |-> "textinput", id |-> "password", label |-> "Password",
        width |-> 6, default |-> ""] >>

\* The ids of the dropdown choices of the two feedbacks.
PowerChoices == {<<"0","0">>, <<"8","0">>, <<"4","0">>, <<"2","0">>, <<"1","0">>}
SlotChoices == {<<"1">>, <<"2">>, <<"3">>, <<"4">>}

\* Variant of PowerStateCallback: an undefined power state counts as the
\* default choice.
PowerStateCallbackDefault(M, fb) ==
    (IF M.powerState = Undefined THEN <<"0","0">> ELSE M.powerState)
        = fb.options.state

\* (fb) => this.powerState === fb.options.state
PowerStateCallback(M, fb) == M.powerState = fb.options.state

\* (fb) => this.inputState === fb.options.slot
InputSourceCallback(M, fb) == M.inputState = fb.options.slot

\* What a call of the host returned: last, with the option passed and the
\* value returned.
Returned(op, arg, option, result) ==
    [op |-> op, arg |-> arg, log |-> "", status |-> "", calls |-> {},
     option |-> option, result |-> result]

\* The host evaluates the power_state feedback of an initialised instance.
powerStateFeedback(state) ==
    /\ ~crashed
    /\ "setFeedbackDefinitions" \in published
    /\ last' = Returned("feedback", "power_state", state,
                        PowerStateCallback(Cur, [options |-> [state |-> state]]))
    /\ UNCHANGED held

\* The host evaluates the input_source feedback of an initialised instance.
inputSourceFeedback(slot) ==
    /\ ~crashed
    /\ "setFeedbackDefinitions" \in published
    /\ last' = Returned("feedback", "input_source", slot,
                        InputSourceCallback(Cur, [options |-> [slot |-> slot]]))
    /\ UNCHANGED held

\* The host asks for the configuration fields.
getConfigFields ==
    /\ ~crashed
    /\ last' = Returned("getConfigFields", "", "", GetConfigFields)
    /\ UNCHANGED held

\* Tokens a device's replies put in the cache: the power codes of the
\* feedback choices and one other, the four slots and one other.
PowerTokens == PowerChoices \cup {<<"F","F">>}
InputTokens == SlotChoices \cup {<<"A">>}

HostlessConfig == [defined |-> TRUE, host |-> NoHost, password |-> PasswordA]

\* States in which the host calls: a constructed instance; an instance
\* initialised without a host; one initialised with a host whose first poll
\* cycle is open; one whose poll cycle has stored a device state; and that
\* one after configUpdated to a configuration without host.
InitHost ==
    /\ socket = 0
    /\ crashed = FALSE
    /\ \/ /\ config = NoConfig
          /\ pollTimer = FALSE /\ timers = 0
          /\ powerState = Undefined /\ inputState = Undefined
          /\ socks = [s \in 1..MaxSockets |-> NoSock]
          /\ published = {}
          /\ last = Ev("constructor", "", "", "")
       \/ /\ config = HostlessConfig
          /\ pollTimer = TRUE /\ timers = 1
          /\ powerState = Undefined /\ inputState = Undefined
          /\ socks = [s \in 1..MaxSockets |-> NoSock]
          /\ published = UpdateFeedbacks(UpdateActions({}))
          /\ last = [Ev("init", "", "", "ok")
                        EXCEPT !.calls = UpdateFeedbacks(UpdateActions({}))]
       \/ /\ config = HostConfig
          /\ pollTimer = TRUE /\ timers = 1
          /\ powerState = Undefined /\ inputState = Undefined
          /\ socks = [s \in 1..MaxSockets |->
                        IF s = 1 THEN NewSock("poll", HostConfig, NoCode) ELSE NoSock]
          /\ published = UpdateFeedbacks(UpdateActions({}))
          /\ last = [Ev("init", "", "", "ok")
                        EXCEPT !.calls = UpdateFeedbacks(UpdateActions({}))]
       \/ /\ config = HostConfig
          /\ pollTimer = TRUE /\ timers = 1
          /\ powerState \in PowerTokens /\ inputState \in InputTokens
          /\ socks = [s \in 1..MaxSockets |-> NoSock]
          /\ published = UpdateFeedbacks(UpdateActions({}))
          /\ last = [Ev("event", "", "", "") EXCEPT !.calls = {"checkFeedbacksById"}]
       \/ /\ config = HostlessConfig
          /\ pollTimer = TRUE /\ timers = 1
          /\ powerState \in PowerTokens /\ inputState \in InputTokens
          /\ socks = [s \in 1..MaxSockets |-> NoSock]
          /\ published = UpdateFeedbacks(UpdateActions({}))
          /\ last = Ev("configUpdated", "", "", "ok")

NextHost ==
    \/ \E state \in PowerChoices : powerStateFeedback(state)
    \/ \E slot \in SlotChoices : inputSourceFeedback(slot)
    \/ getConfigFields

SpecHost == InitHost /\ [][NextHost]_vars

\* Spec with the timers of Node: a callback given to setTimeout runs once its
\* delay has passed, so a pending linger timer eventually fires.
SpecTimers ==
    Init /\ [][Next]_vars /\ \A s \in 1..MaxSockets : WF_vars(onLinger(s))

(***************************************************************************)
(* Properties.                                                             *)
(***************************************************************************)
Count(seq, x) == Cardinality({i \in 1..Len(seq) : seq[i] = x})

IsPrefix(a, b) == Len(a) <= Len(b) /\ \A i \in 1..Len(a) : a[i] = b[i]

\* Sockets of ad-hoc sessions, and of any session, that are not destroyed.
CmdSocks == {s \in DOMAIN socks : socks[s].open /\ socks[s].kind = "cmd"}
OpenSocks == {s \in DOMAIN socks : socks[s].open}

\* C1: on the socket of an ad-hoc session nothing is written before a chunk
\* holding PASSWORD: has been received (so nothing on "connect"); the first
\* write is the password line; the command line is the second write and is
\* written only after a chunk holding HELLO has followed the PASSWORD: chunk.
C1_PromptsPrecedeWrites ==
    \A s \in CmdSocks :
        LET k == socks[s]
        IN  /\ ~k.seenPw => k.writes = <<>>
            /\ Len(k.writes) >= 1 => k.writes[1] = k.pass \o CR
            /\ Len(k.writes) >= 2 => k.seenHello /\ k.writes[2] = k.cmd \o CR
            /\ \A i \in 1..Len(k.writes) : k.writes[i] = k.cmd \o CR => i = 2

\* An ad-hoc session has written its password line and then its command line.
C1_Witness ==
    \E s \in CmdSocks :
        /\ socks[s].seenPw /\ socks[s].seenHello
        /\ Len(socks[s].writes) >= 2
        /\ socks[s].writes[2] = socks[s].cmd \o CR

\* C2, as stated: the writes on the socket of an ad-hoc session are the
\* password line followed by the command line and nothing else; CR0 and CR1
\* are never written on it.
C2_OnlyPasswordAndCommand ==
    \A s \in CmdSocks :
        /\ IsPrefix(socks[s].writes, <<socks[s].pass \o CR, socks[s].cmd \o CR>>)
        /\ Count(socks[s].writes, CR0 \o CR) = 0
        /\ Count(socks[s].writes, CR1 \o CR) = 0

\* C2, amended: the writes on the socket of an ad-hoc session are a prefix of
\* password line, command line, CR0 line, CR1 line; the command line is
\* written once and the CR0 line is written in the same step as it.
C2_OneCommandThenStatusQuery ==
    \A s \in CmdSocks :
        LET k == socks[s]
        IN  /\ IsPrefix(k.writes, <<k.pass \o CR, k.cmd \o CR, CR0 \o CR, CR1 \o CR>>)
            /\ Len(k.writes) # 2
            /\ Count(k.writes, k.cmd \o CR) <= 1

\* An ad-hoc session has written all four lines.
C2_Witness ==
    \E s \in CmdSocks :
        socks[s].writes = <<socks[s].pass \o CR, socks[s].cmd \o CR,
                            CR0 \o CR, CR1 \o CR>>

\* C3: in one session, ad-hoc or poll, the password line is written at most
\* once and the HELLO transition fires at most once (one command line in an
\* ad-hoc session, one start of the status query, that is one CR0 line, in
\* either), whatever chunks arrive.
C3_PromptsActOnce ==
    \A s \in OpenSocks :
        LET k == socks[s]
        IN  /\ Len(k.writes) >= 1 => k.writes[1] = k.pass \o CR
            /\ \A i \in 2..Len(k.writes) :
                  k.writes[i] \in {k.cmd \o CR, CR0 \o CR, CR1 \o CR}
                  /\ (k.kind = "poll" => k.writes[i] # k.cmd \o CR)
            /\ k.kind = "cmd" => Count(k.writes, k.cmd \o CR) <= 1
            /\ Count(k.writes, CR0 \o CR) <= 1

\* A session that has sent its password and started its status query
\* received a PASSWORD: chunk again (its "A" was parsed as the input reply)
\* and wrote the password line, the command line and CR0 once each.
C3_Witness ==
    \E s \in CmdSocks :
        /\ socks[s].responses = << <<"0","0">>, <<"A">> >>
        /\ Count(socks[s].writes, socks[s].pass \o CR) = 1
        /\ Count(socks[s].writes, socks[s].cmd \o CR) = 1
        /\ Count(socks[s].writes, CR0 \o CR) = 1

\* The command code the specification gives for each supported action.
C4_Code ==
    [a \in SupportedActions |->
        CASE a = "power_on"  -> <<"C","0","0">>
          [] a = "power_off" -> <<"C","0","1">>
          [] a = "input_1"   -> <<"C","0","5">>
          [] a = "input_2"   -> <<"C","0","6">>
          [] a = "input_3"   -> <<"C","0","7">>
          [] a = "input_4"   -> <<"C","0","8">>
          [] a = "menu_on"   -> <<"C","1","C">>
          [] a = "menu_off"  -> <<"C","1","D">>]

\* C4: executeAction and the published callback of a supported action open a
\* session for the one code of that action, the same in both; a session that
\* has answered PASSWORD: and then HELLO has written its code followed by a
\* carriage return exactly once.
C4_OneCodePerAction ==
    /\ \A a \in SupportedActions :
          ExecuteCode(a) = C4_Code[a] /\ CallbackCode(a) = C4_Code[a]
    /\ last.op \in {"executeAction", "callback"} /\ last.arg \in SupportedActions
          => /\ socket # 0
             /\ socks[socket] = NewSock("cmd", config, C4_Code[last.arg])
    /\ \A s \in CmdSocks :
          /\ \E a \in SupportedActions : socks[s].cmd = C4_Code[a]
          /\ socks[s].commandSent => Count(socks[s].writes, socks[s].cmd \o CR) = 1
          /\ ~socks[s].commandSent => Count(socks[s].writes, socks[s].cmd \o CR) = 0

\* The session of menu_off has answered both prompts and written C1D once.
C4_Witness ==
    \E s \in CmdSocks :
        /\ socks[s].cmd = <<"C","1","D">>
        /\ socks[s].seenPw /\ socks[s].seenHello /\ socks[s].commandSent
        /\ Count(socks[s].writes, <<"C","1","D","\r">>) = 1

\* C5: executeAction of an identifier no case matches changes nothing: no
\* socket is opened, destroyed or written to, no error is logged or thrown,
\* and this.socket, the poll timer, the configuration and the cache stay.
C5_UnknownActionIsNoOp ==
    [][last'.op = "executeAction" /\ last'.arg \notin SupportedActions
          => UNCHANGED held /\ last'.log = ""]_vars

\* executeAction("unknown_action") ran while an ad-hoc session was open, the
\* poll timer was armed and the cache held a state.
C5_Witness ==
    /\ last.op = "executeAction" /\ last.arg = "unknown_action"
    /\ socket # 0 /\ socks[socket].open
    /\ pollTimer /\ powerState # Undefined

\* C6: with no host configured, executeAction of a supported action and the
\* published callbacks log "Host not configured" and change nothing: no
\* socket is created or written to and this.socket is neither destroyed nor
\* replaced.
C6_NoHostNoSession ==
    [][last'.op \in {"executeAction", "callback"} /\ last'.arg \in SupportedActions
         /\ ~HostSet(config)
          => UNCHANGED held /\ last'.log = "Host not configured"]_vars

\* sendCommand logged "Host not configured" while an ad-hoc session was open.
C6_Witness ==
    /\ last.op \in {"executeAction", "callback"}
    /\ last.log = "Host not configured"
    /\ socket # 0 /\ socks[socket].open

\* C7, as stated: an exchange that has received its power token and then its
\* input token has requested the feedback check exactly once, whatever data
\* its socket receives afterwards, and it stored exactly its two tokens.
C7_OneFeedbackCheckPerExchange ==
    \A s \in DOMAIN socks :
        /\ socks[s].checks <= 1
        /\ socks[s].checks = 1 => Len(socks[s].responses) = 2

\* The cache, and the number of feedback checks made so far on a socket.
cache == <<powerState, inputState>>
Checks(s) == socks[s].checks

\* A chunk delivered now to socket s can complete its exchange: the socket
\* is connected, requestState's listener is on it and the power reply has
\* been parsed.
AwaitsInput(s) ==
    /\ socks[s].open /\ socks[s].conn = "connected"
    /\ socks[s].rs /\ socks[s].step = 1 /\ Len(socks[s].responses) >= 1

\* C8: a poll cycle that does not complete changes nothing it should not.
\* A socket error changes neither the cache nor the timer and runs no
\* feedback check; no socket event cancels the timer; and the cache changes,
\* or a feedback check runs, only in a step that delivers the second reply
\* to an exchange, so a cycle whose prompts or replies never arrive leaves
\* the cache as it was.
C8_FailedPollChangesNothing ==
    [][/\ last'.op = "error"
            => /\ UNCHANGED <<cache, pollTimer, timers, config, socket>>
               /\ \A s \in DOMAIN socks : Checks(s)' = Checks(s)
       /\ last'.op \in {"error", "connect", "event"}
            => UNCHANGED <<pollTimer, timers>>
       /\ (cache' # cache \/ \E s \in DOMAIN socks : Checks(s)' > Checks(s))
            => \E s \in DOMAIN socks : AwaitsInput(s)
       /\ \A s \in DOMAIN socks :
            socks[s].open /\ socks[s].kind = "poll" /\ socks[s].conn = "failed"
            => socks'[s] = socks[s]]_vars

\* A poll cycle failed after its power reply had arrived, while the cache
\* held the state of an earlier exchange and the timer was armed.
C8_Witness ==
    /\ last.op = "error"
    /\ \E s \in DOMAIN socks :
          /\ socks[s].kind = "poll" /\ socks[s].conn = "failed"
          /\ socks[s].rs /\ socks[s].step = 1
    /\ powerState # Undefined /\ inputState # Undefined
    /\ pollTimer /\ timers > 0

\* C9, as stated: the cache changes only in a step that completes the
\* exchange of a poll session.
C9_OnlyPollWritesCache ==
    [][cache' # cache
          => \E s \in DOMAIN socks :
                /\ socks[s].kind = "poll" /\ AwaitsInput(s)
                /\ powerState' = socks[s].responses[1]]_vars

\* C9, amended: the cache changes only in a step that delivers the second
\* status reply to an exchange, of a poll session or of an ad-hoc session
\* that has sent its command, and it then holds the power token of that
\* exchange and a one-character input token; init, configUpdated, destroy,
\* executeAction, the callbacks, the timer and connect and error events
\* never change it.
C9_OnlyCompletedExchangeWritesCache ==
    [][cache' # cache
          => /\ last'.op = "event"
             /\ \E s \in DOMAIN socks :
                   /\ AwaitsInput(s)
                   /\ socks[s].kind = "poll" => socks[s].helloReceived
                   /\ socks[s].kind = "cmd" => socks[s].commandSent
                   /\ powerState' = socks[s].responses[1]
                   /\ Len(inputState') = 1
                   /\ socks[s].kind = "poll" => ~socks'[s].open
                   /\ socks[s].kind = "cmd" => Checks(s)' = Checks(s) + 1]_vars

\* An ad-hoc session completed its exchange and the cache holds its tokens.
C9_Witness ==
    \E s \in CmdSocks :
        /\ socks[s].checks >= 1
        /\ Len(socks[s].responses) = 2
        /\ powerState = socks[s].responses[1]
        /\ inputState = socks[s].responses[2]

\* C10: once powerState or inputState holds a token, no step sets it back to
\* undefined.
C10_CacheNeverReset ==
    [][/\ powerState # Undefined => powerState' # Undefined
       /\ inputState # Undefined => inputState' # Undefined]_vars

\* The cache holds a state after destroy(), and after configUpdated.
C10_Witness ==
    /\ last.op \in {"destroy", "configUpdated"}
    /\ powerState # Undefined /\ inputState # Undefined

\* Sockets on which requestState has registered its listener.
ExchangeSocks == {s \in DOMAIN socks : socks[s].open /\ socks[s].rs}

\* The last two writes on socket s are the CR0 line and then the CR1 line.
EndsWithQueries(s) ==
    LET w == socks[s].writes
    IN  Len(w) >= 2 /\ w[Len(w) - 1] = CR0 \o CR /\ w[Len(w)] = CR1 \o CR

\* C11: the status-query exchange is sequential.  CR0 is written once, when
\* the exchange starts, and not before; CR1 is written at most once, after
\* CR0, exactly when a power reply has been parsed; a feedback check has run
\* only after both replies were parsed (responses holds the power token and
\* one token for every check); and the cache is written, and the
\* completion callback of a poll session destroys its socket, only in a step
\* that delivers a reply to an exchange that has written CR1.
C11_ExchangeIsSequential ==
    /\ [](\A s \in OpenSocks :
            LET k == socks[s]
            IN  /\ Count(k.writes, CR0 \o CR) = (IF k.rs THEN 1 ELSE 0)
                /\ Count(k.writes, CR1 \o CR) = (IF k.rs /\ k.step = 1 THEN 1 ELSE 0)
                /\ k.step = 1 => k.rs /\ EndsWithQueries(s)
                /\ k.step = 1 <=> Len(k.responses) >= 1
                /\ Len(k.responses) >= 1 => Len(k.responses[1]) = 2
                /\ k.checks > 0 => k.step = 1 /\ Len(k.responses) = 1 + k.checks)
    /\ [][/\ cache' # cache
             => \E s \in ExchangeSocks : AwaitsInput(s) /\ EndsWithQueries(s)
          /\ \A s \in DOMAIN socks :
                \/ Checks(s)' > Checks(s)
                \/ socks[s].open /\ socks[s].kind = "poll" /\ ~socks'[s].open
                => AwaitsInput(s) /\ EndsWithQueries(s)]_vars

\* A poll session has parsed the power reply and written CR1, and waits for
\* the input reply: nothing is stored or checked yet.
C11_Witness ==
    \E s \in ExchangeSocks :
        /\ socks[s].kind = "poll"
        /\ socks[s].step = 1 /\ socks[s].responses = << <<"0","0">> >>
        /\ EndsWithQueries(s)
        /\ socks[s].checks = 0
        /\ powerState = Undefined

\* The ad-hoc session on socket s has written its command line.
CommandWritten(s) ==
    /\ socks[s].open /\ socks[s].kind = "cmd" /\ socks[s].commandSent
    /\ Count(socks[s].writes, socks[s].cmd \o CR) = 1

\* C12: once an ad-hoc session has written its command, its socket is
\* eventually destroyed and this.socket no longer refers to it, whatever
\* data arrives; and when the linger timer of the session that this.socket
\* refers to fires, the socket is destroyed and this.socket is cleared.
C12_LingerDestroysSocket ==
    /\ \A s \in 1..MaxSockets :
          CommandWritten(s) ~> (~socks[s].open /\ socket # s)
    /\ [][\A s \in DOMAIN socks :
             socks[s].linger /\ ~socks'[s].linger /\ socket = s
             => ~socks'[s].open /\ socket' = 0]_vars

\* A timer or data event left no socket connected and this.socket cleared
\* while the cache was never written: data arrives on connected sockets only
\* and leaves them connected unless the exchange completes, so the step was
\* the linger timer of an ad-hoc session destroying this.socket.
C12_Witness ==
    /\ last.op = "event"
    /\ ~crashed
    /\ socket = 0
    /\ \A s \in OpenSocks : socks[s].kind = "poll" /\ socks[s].conn # "connected"
    /\ \A s \in DOMAIN socks : ~socks[s].linger
    /\ powerState = Undefined

\* The linger timer of the session created in place s fires in this step.
LingerFires(s) == socks[s].linger /\ ~socks'[s].linger

\* C13, as stated: the linger timer of a session never destroys the socket
\* of another session and never clears a reference of this.socket to it.
C13_LingerSparesNewerSession ==
    [][\A s \in DOMAIN socks :
          LingerFires(s)
          => \A t \in DOMAIN socks \ {s} :
                /\ socks[t].open => socks'[t].open
                /\ socket = t => socket' = t]_vars

\* C14: in every reachable state at most one socket created by sendCommand
\* is not destroyed, and it is the one this.socket refers to.
C14_OneAdHocSocket ==
    /\ Cardinality(CmdSocks) <= 1
    /\ \A s \in CmdSocks : socket = s

\* A second ad-hoc session was started while the first was in its linger
\* window: the first socket is destroyed with its timer pending, the second
\* is open.
C14_Witness ==
    \E s \in CmdSocks :
        \E t \in DOMAIN socks \ {s} :
            socks[t].kind = "cmd" /\ ~socks[t].open /\ socks[t].linger

\* C15, as stated: no timer callback and no data listener ever runs with
\* this.socket undefined, that is, none throws.
C15_NoHandlerFaults == ~crashed

\* Sockets that can still deliver events: not destroyed and not failed.
ActiveSocks ==
    {s \in OpenSocks : socks[s].conn \in {"connecting", "connected"}}

\* C16, as stated: when destroy() has run, the poll timer is cancelled and
\* no session socket, ad-hoc or poll, is left that can still write, update
\* the cache or request a feedback check.
C16_TeardownClosesEverySession ==
    last.op = "destroy"
    => ~pollTimer /\ timers = 0 /\ socket = 0 /\ ActiveSocks = {}

\* C17, as stated: configUpdated destroys no open session socket, ad-hoc or
\* poll: every session that was open is left as it was.
C17_ReconfigurationSparesSessions ==
    [][last'.op = "configUpdated"
          => \A s \in OpenSocks : socks'[s] = socks[s]]_vars

\* C17, amended: configUpdated leaves every open poll session as it was
\* (socket, progress and captured password), so it completes or fails on its
\* own; the open ad-hoc session, if there is one, is destroyed.
C17_ReconfigurationSparesPolls ==
    [][last'.op = "configUpdated"
          => /\ \A s \in OpenSocks :
                   socks[s].kind = "poll" => socks'[s] = socks[s]
             /\ \A s \in CmdSocks :
                   ~(socks'[s].open /\ socks'[s].kind = "cmd")]_vars

\* configUpdated has run: a poll session that had already sent its password
\* is still open, and an ad-hoc session in its linger window is destroyed.
C17_Witness ==
    /\ last.op = "configUpdated"
    /\ \E s \in OpenSocks :
          /\ socks[s].kind = "poll" /\ socks[s].conn = "connected"
          /\ socks[s].passwordSent
    /\ \E t \in DOMAIN socks :
          socks[t].kind = "cmd" /\ ~socks[t].open /\ socks[t].linger

\* C18: configUpdated(c) stores c as it is (no field of the previous
\* configuration survives), destroys the open ad-hoc socket, leaves
\* this.socket undefined and reports the status ok.
C18_ConfigUpdatedResetsTCP ==
    [][last'.op = "configUpdated"
          => /\ config' \in Configs
             /\ socket' = 0
             /\ CmdSocks' = {}
             /\ last'.status = "ok" /\ last'.log = ""]_vars

\* configUpdated has replaced a configuration with a host by one without,
\* while an ad-hoc session was in its linger window.
C18_Witness ==
    /\ last.op = "configUpdated" /\ last.status = "ok"
    /\ config = [defined |-> TRUE, host |-> NoHost, password |-> PasswordA]
    /\ socket = 0
    /\ \E t \in DOMAIN socks :
          socks[t].kind = "cmd" /\ ~socks[t].open /\ socks[t].linger

\* Sockets of poll cycles that are not destroyed.
PollSocks == {s \in DOMAIN socks : socks[s].open /\ socks[s].kind = "poll"}

\* C19: at most one interval timer is armed in any state, and it is the one
\* this.pollTimer holds; after init and after configUpdated exactly one is
\* armed and, with a host configured, exactly one poll session has just been
\* opened with the new configuration; after destroy none is armed.
C19_OnePollTimer ==
    /\ [](/\ timers <= 1
          /\ pollTimer <=> timers = 1
          /\ last.op \in {"init", "configUpdated"}
                => /\ pollTimer /\ timers = 1
                   /\ HostSet(config)
                        => \E s \in PollSocks :
                              socks[s] = NewSock("poll", config, NoCode)
          /\ last.op = "destroy" => ~pollTimer /\ timers = 0)
    /\ [][last'.op \in {"init", "configUpdated"}
            => Cardinality(PollSocks') =
                  Cardinality(PollSocks) + (IF HostSet(config') THEN 1 ELSE 0)]_vars

\* init or configUpdated has run again on an instance whose cache already
\* holds a state: one timer is armed and a new poll session has been opened.
C19_Witness ==
    /\ last.op \in {"init", "configUpdated"}
    /\ powerState # Undefined
    /\ timers = 1
    /\ \E s \in PollSocks : socks[s] = NewSock("poll", config, NoCode)

\* C20, as stated: in every reachable state at most one poll-cycle socket
\* is open and able to act.
C20_OnePollSession ==
    Cardinality(PollSocks \cap ActiveSocks) <= 1

\* C20, amended: poll cycles are not kept from overlapping.  Every timer
\* tick, init and configUpdated with a host configured opens one new poll
\* socket whether or not an earlier cycle is still open; nothing else opens
\* one; and the socket of a cycle is destroyed only by the completion of its
\* own exchange.
C20_PollCyclesMayOverlap ==
    [][/\ Cardinality(PollSocks') <= Cardinality(PollSocks) + 1
       /\ Cardinality(PollSocks') > Cardinality(PollSocks)
            => last'.op \in {"init", "configUpdated", "pollTick"} /\ HostSet(config')
       /\ last'.op = "pollTick" /\ HostSet(config)
            => /\ Cardinality(PollSocks') = Cardinality(PollSocks) + 1
               /\ \A s \in PollSocks : socks'[s] = socks[s]
       /\ \A s \in PollSocks :
            ~socks'[s].open => AwaitsInput(s) /\ socks[s].rsFinish]_vars

\* The timer ticked while the previous cycle was waiting for the device: two
\* poll sockets are open, the earlier one connected and past its password.
C20_Witness ==
    /\ last.op = "pollTick"
    /\ \E s \in PollSocks, u \in PollSocks :
          /\ s # u
          /\ socks[s].conn = "connected" /\ socks[s].passwordSent
          /\ socks[u] = NewSock("poll", config, NoCode)

\* Places of ad-hoc sessions: the socket is not destroyed, or the linger timer
\* of the session is pending.
AdHocPlaces == {s \in DOMAIN socks : socks[s].kind = "cmd" /\ ~Vacant(socks[s])}

\* C21: poll cycles and ad-hoc sessions share no socket.  this.socket never
\* refers to the socket of a poll cycle; starting a cycle (timer tick, init)
\* and any event that changes a poll socket (connect, data, completion,
\* error) leave this.socket and every ad-hoc session as they were; and
\* starting an ad-hoc session or firing a linger timer leaves every poll
\* socket as it was: not destroyed, nothing written to it.
C21_PollAndAdHocShareNoSocket ==
    /\ [](socket # 0 => socks[socket].open /\ socks[socket].kind = "cmd")
    /\ [][/\ last'.op \in {"pollTick", "init"}
             => socket' = socket /\ \A s \in AdHocPlaces : socks'[s] = socks[s]
          /\ last'.op \in {"event", "connect", "error"}
             /\ (\E s \in PollSocks : socks'[s] # socks[s])
             => socket' = socket /\ \A s \in AdHocPlaces : socks'[s] = socks[s]
          /\ last'.op \in {"executeAction", "callback"}
             \/ (\E s \in DOMAIN socks : LingerFires(s))
             => \A s \in PollSocks : socks'[s] = socks[s]]_vars

\* The exchange of a poll cycle completed, and its socket was destroyed,
\* while an ad-hoc session that had sent its command and had not completed
\* its own exchange was open: this.socket still refers to that session.
C21_Witness ==
    /\ last.op = "event" /\ last.calls = {"checkFeedbacksById"}
    /\ socket # 0
    /\ socks[socket].open /\ socks[socket].commandSent
    /\ socks[socket].checks = 0

\* C22, as stated: a session that has received no chunk holding PASSWORD:
\* has written nothing (a HELLO chunk included), has started neither its
\* status query nor its linger timer, and its socket is destroyed only by
\* destroy, configUpdated or the start of a newer ad-hoc session.
C22_StalledSessionStaysOpen ==
    /\ [](\A s \in OpenSocks :
            ~socks[s].seenPw
            => /\ socks[s].writes = <<>>
               /\ ~socks[s].passwordSent /\ ~socks[s].rs /\ ~socks[s].linger)
    /\ [][\A s \in OpenSocks :
             ~socks[s].seenPw /\ ~socks'[s].open
             => last'.op \in {"destroy", "configUpdated", "executeAction",
                              "callback"}]_vars

\* C23, as stated: prompt detection works on the accumulated text.  When the
\* text a session's socket has received in consecutive chunks contains
\* PASSWORD:, the session has sent its password; when the session had sent
\* its password before and the text contains HELLO, the HELLO transition has
\* fired (the status query was started).
C23_SplitPromptDetected ==
    last.op = "data" /\ socks[last.arg].open
    => /\ HasPassword(last.log)
            => /\ socks[last.arg].passwordSent
               /\ socks[last.arg].writes # <<>>
       /\ socks[last.arg].passwordSent
          /\ ~HasPassword(last.log) /\ HasHello(last.log)
            => socks[last.arg].rs

\* C24, as stated: when a socket error of an ad-hoc session has been logged,
\* it has been reported to the host as a status and the session is
\* abandoned: its socket is neither connecting again nor connected, so the
\* session makes no further write.
C24_AdHocErrorNotRetried ==
    last.op = "error" /\ last.log = "Network error"
    => /\ last.status = "unknown_error"
       /\ \A s \in CmdSocks : socks[s].conn \notin {"connecting", "connected"}

\* C25: a poll cycle that completes updates the cache, requests the feedback
\* check and closes its own socket.  No poll socket is left open with both
\* tokens parsed; a poll socket is destroyed only in the data event that
\* delivers its input reply, and that step stores the two tokens of the cycle
\* and calls checkFeedbacksById; and every data event that completes the
\* exchange of a poll cycle destroys the socket of the cycle.
C25_CompletedPollClosesSocket ==
    /\ [](\A s \in PollSocks :
            Len(socks[s].responses) <= 1 /\ socks[s].checks = 0)
    /\ [][/\ \A s \in PollSocks :
                ~socks'[s].open
                => /\ AwaitsInput(s) /\ socks[s].helloReceived
                   /\ last'.op = "event"
                   /\ last'.calls = {"checkFeedbacksById"}
                   /\ powerState' = socks[s].responses[1]
                   /\ Len(inputState') = 1
          /\ "checkFeedbacksById" \in last'.calls /\ (\A s \in CmdSocks : Checks(s)' = Checks(s))
                => \E s \in PollSocks : AwaitsInput(s) /\ ~socks'[s].open]_vars

\* The mock device's replies 00 and 3 completed a poll cycle: the cache holds
\* both tokens, the feedback check was requested and no socket is left open.
C25_Witness ==
    /\ last.op = "event" /\ last.calls = {"checkFeedbacksById"}
    /\ powerState = <<"0","0">> /\ inputState = <<"3">>
    /\ OpenSocks = {}

\* C26: feedback evaluation is a pure comparison against the cache.  The
\* power_state callback returns true exactly when this.powerState equals the
\* chosen state, the input_source callback exactly when this.inputState
\* equals the chosen slot; both return false for every choice while the cache
\* is undefined; and evaluating a feedback changes nothing.
C26_FeedbackComparesCache ==
    /\ [](last.op = "feedback"
            => /\ last.arg = "power_state"
                    => /\ last.option \in PowerChoices
                       /\ last.result <=> powerState = last.option
               /\ last.arg = "input_source"
                    => /\ last.option \in SlotChoices
                       /\ last.result <=> inputState = last.option
               /\ powerState = Undefined /\ inputState = Undefined
                    => last.result = FALSE)
    /\ [][last'.op = "feedback" => UNCHANGED held]_vars

\* The input_source feedback with slot 3 was found true on a cache holding
\* power 00 and input 3.
C26_Witness ==
    /\ last.op = "feedback" /\ last.arg = "input_source"
    /\ last.option = <<"3">> /\ last.result = TRUE
    /\ powerState = <<"0","0">> /\ inputState = <<"3">>

\* C28: getConfigFields returns exactly three fields, with the ids host, port
\* and password in that order, whatever state the instance is in; host
\* carries the hostname validator, port the port validator and the default
\* 10000, password the default empty string; and the call changes nothing.
C28_ThreeConfigFields ==
    /\ [](last.op = "getConfigFields"
            => /\ Len(last.result) = 3
               /\ last.result[1].id = "host"
               /\ last.result[1].regex = "Regex.HOSTNAME"
               /\ last.result[2].id = "port"
               /\ last.result[2].regex = "Regex.PORT"
               /\ last.result[2].default = 10000
               /\ last.result[3].id = "password"
               /\ last.result[3].default = "")
    /\ [][last'.op = "getConfigFields" => UNCHANGED held]_vars

\* The host asked for the fields of an instance reconfigured without a host
\* whose cache holds a device state.
C28_Witness ==
    /\ last.op = "getConfigFields"
    /\ config = HostlessConfig
    /\ powerState # Undefined

\* C27, as stated: the data event that completes a status-query exchange (it
\* stores the tokens and calls checkFeedbacksById) also reports the variable
\* values derived from the tokens to the host, with setVariableValues.
C27_VariablesReported ==
    last.op = "event" /\ "checkFeedbacksById" \in last.calls
    => "setVariableValues" \in last.calls

\* C29: an ad-hoc session also captures the device state.  Once it has sent
\* its command, the CR0 line follows the command line on the same socket,
\* the listener of requestState is registered and the linger timer is
\* pending; a feedback check was made only after CR1 was written and both
\* replies were parsed; and the data event that completes the exchange
\* stores its two tokens, calls checkFeedbacksById and leaves the socket
\* open, still this.socket, with the linger timer pending: no step that
\* completes an exchange destroys the socket of an ad-hoc session.
C29_AdHocSessionCapturesState ==
    /\ [](\A s \in CmdSocks :
            LET k == socks[s]
            IN  /\ k.commandSent
                    => /\ k.rs /\ k.linger
                       /\ Len(k.writes) >= 3
                       /\ k.writes[2] = k.cmd \o CR /\ k.writes[3] = CR0 \o CR
                /\ k.checks >= 1
                    => /\ k.commandSent /\ Len(k.responses) = 1 + k.checks
                       /\ Len(k.writes) = 4 /\ k.writes[4] = CR1 \o CR)
    /\ [][\A s \in CmdSocks :
             /\ Checks(s)' > Checks(s)
                => /\ AwaitsInput(s) /\ EndsWithQueries(s)
                   /\ last'.op = "event" /\ last'.calls = {"checkFeedbacksById"}
                   /\ socks'[s].open /\ socks'[s].linger /\ socket' = s
                   /\ powerState' = socks'[s].responses[1]
                   /\ inputState' = socks'[s].responses[2]
             /\ "checkFeedbacksById" \in last'.calls => socks'[s].open /\ socket' = s]_vars

\* The replies 00 and 3 reached an ad-hoc session inside its linger window:
\* it wrote password, command, CR0 and CR1, the cache holds both tokens, the
\* feedback check was requested in the last step and the socket is open.
C29_Witness ==
    /\ last.op = "event" /\ last.calls = {"checkFeedbacksById"}
    /\ socket # 0
    /\ socks[socket].open /\ socks[socket].linger /\ socks[socket].checks = 1
    /\ Len(socks[socket].writes) = 4
    /\ powerState = <<"0","0">> /\ inputState = <<"3">>

\* C30, as stated: once an exchange has parsed both tokens its data listener
\* is detached.  No later data chunk on that socket assigns the cache again,
\* requests another feedback check or calls the completion callback again:
\* while the socket stays open its count of feedback checks stays as it is.
C30_ListenerDetachedAfterCompletion ==
    [][\A s \in OpenSocks :
          Len(socks[s].responses) >= 2 /\ Checks(s) >= 1 /\ socks'[s].open
          => Checks(s)' = Checks(s)]_vars

\* C31: the two cache fields are updated together.  In every state
\* powerState and inputState are both undefined or both defined (a token of
\* two characters and a token of one); and every data event that completes
\* an exchange leaves in them the first and the second token parsed by that
\* one exchange.
C31_CacheFieldsUpdatedTogether ==
    /\ [](/\ powerState = Undefined <=> inputState = Undefined
          /\ powerState # Undefined
                => Len(powerState) = 2 /\ Len(inputState) = 1)
    /\ []["checkFeedbacksById" \in last'.calls
            => \E s \in ExchangeSocks :
                  /\ AwaitsInput(s)
                  /\ socks'[s] # socks[s]
                  /\ powerState' = socks[s].responses[1]
                  /\ \/ /\ socks'[s].open
                         /\ socks'[s].responses[1] = socks[s].responses[1]
                         /\ inputState' = socks'[s].responses[2]
                     \/ /\ ~socks'[s].open /\ socks[s].kind = "poll"
                         /\ \E str \in Chunks : inputState' = Scanned[str].one]_vars

\* An ad-hoc session completed its exchange while a poll cycle was open: the
\* cache holds its two tokens, 00 and the A of a PASSWORD: chunk.
C31_Witness ==
    /\ last.op = "event" /\ "checkFeedbacksById" \in last.calls
    /\ PollSocks # {}
    /\ \E s \in CmdSocks :
          /\ socks[s].checks = 1
          /\ socks[s].responses = <<powerState, inputState>>
          /\ inputState = <<"A">>

\* C32: a chunk that holds both PASSWORD: and HELLO triggers only the
\* password write.  When such a chunk is the first chunk with PASSWORD: that
\* a session receives, the session has then written its password line and
\* nothing else, and has started neither its command, nor its status query,
\* nor its linger timer; and the HELLO transition of a session has fired
\* only if a chunk holding HELLO arrived after a chunk holding PASSWORD:.
C32_BothPromptsOnlyPassword ==
    /\ last.op = "data" /\ last.chunk = ChunkBoth /\ socks[last.arg].open
       /\ ~socks[last.arg].seenHello
       => LET k == socks[last.arg]
          IN  /\ k.passwordSent /\ k.writes = <<k.pass \o CR>>
              /\ ~k.commandSent /\ ~k.helloReceived /\ ~k.rs /\ ~k.linger
    /\ \A s \in OpenSocks :
          socks[s].commandSent \/ socks[s].helloReceived \/ socks[s].rs
          => socks[s].seenPw /\ socks[s].seenHello

\* An ad-hoc session received PASSWORD: and HELLO in one chunk as its first
\* data: it has written the password line only.
C32_Witness ==
    /\ last.op = "data" /\ last.chunk = ChunkBoth /\ last.log = ChunkBoth
    /\ socks[last.arg].open /\ socks[last.arg].kind = "cmd"
    /\ ~socks[last.arg].seenHello
    /\ socks[last.arg].writes = <<socks[last.arg].pass \o CR>>

\* C33: no ad-hoc socket is leaked.  In every reachable state every socket
\* created by sendCommand is this.socket or is destroyed, and this.socket
\* refers to no destroyed socket; and whenever a step clears this.socket or
\* makes it refer to another socket, the socket it referred to is destroyed
\* when the step ends (its place in socks is vacated, or already holds the
\* TCPHelper queryState created later in the same handler).
C33_NoAdHocSocketLeaked ==
    /\ [](/\ \A s \in DOMAIN socks :
               socks[s].kind = "cmd" => socket = s \/ ~socks[s].open
          /\ socket # 0 => socks[socket].open)
    /\ [][socket # 0 /\ socket' # socket
            => ~socks'[socket].open \/ socks'[socket].kind = "poll"]_vars

\* destroy() ran while an ad-hoc session was lingering: the reference is
\* cleared, and the socket of the session is destroyed with its timer still
\* pending.
C33_Witness ==
    /\ last.op = "destroy"
    /\ socket = 0
    /\ \E t \in DOMAIN socks :
          socks[t].kind = "cmd" /\ ~socks[t].open /\ socks[t].linger

\* C34: each ad-hoc session writes only to its own socket.  Whenever the
\* data listener of an ad-hoc session sends the password or the command
\* (its passwordSent or commandSent becomes true), this.socket is the socket
\* that received the data, the lines are appended to the writes of that
\* socket, and the writes of every other socket are unchanged.
C34_SessionWritesOwnSocket ==
    [][\A s \in CmdSocks :
          LET k == socks[s]
              sentPassword == ~k.passwordSent /\ socks'[s].passwordSent
              sentCommand  == ~k.commandSent /\ socks'[s].commandSent
          IN  sentPassword \/ sentCommand
              => /\ socket = s /\ socket' = s
                 /\ sentPassword => socks'[s].writes = Append(k.writes, k.pass \o CR)
                 /\ sentCommand
                    => socks'[s].writes = k.writes \o <<k.cmd \o CR, CR0 \o CR>>
                 /\ \A t \in DOMAIN socks \ {s} :
                       socks'[t].writes = socks[t].writes]_vars

\* An ad-hoc session has sent its password and its command while the socket
\* of a poll cycle was open: the lines are on the session's socket, which
\* is this.socket, and the poll socket has been written nothing.
C34_Witness ==
    /\ last.op = "event"
    /\ \E s \in CmdSocks :
          /\ socket = s
          /\ socks[s].writes = <<socks[s].pass \o CR, socks[s].cmd \o CR, CR0 \o CR>>
          /\ \E t \in PollSocks : socks[t].writes = <<>>

\* Operations that can create a session.
OpeningOps == {"init", "configUpdated", "executeAction", "callback", "pollTick"}

\* C35: a session uses the password that was configured when it was
\* opened.  A session that a step creates holds the password of the
\* configuration in force when its TCPHelper is constructed; a session keeps
\* the password it holds for as long as its socket is open, whatever
\* configuration is installed meanwhile; and the password line a session
\* writes is the password it holds followed by a carriage return.
C35_SessionUsesCapturedPassword ==
    [][\A s \in DOMAIN socks :
          /\ last'.op \in OpeningOps /\ socks'[s].open /\ socks'[s] # socks[s]
             => socks'[s].pass = Pass(config')
          /\ last'.op \notin OpeningOps /\ socks'[s].open
             => socks[s].open /\ socks'[s].pass = socks[s].pass
          /\ ~socks[s].passwordSent /\ socks'[s].passwordSent
             => socks'[s].writes = Append(socks[s].writes, socks[s].pass \o CR)]_vars

\* The PASSWORD: prompt was the first data of a poll session, it arrived
\* after configUpdated had installed another password, and the session has
\* written the password of the configuration it was opened under.
C35_Witness ==
    /\ last.op = "data" /\ last.chunk = ChunkPassword /\ last.log = ChunkPassword
    /\ socks[last.arg].open /\ socks[last.arg].kind = "poll"
    /\ socks[last.arg].writes = <<PasswordA \o CR>>
    /\ config.password = PasswordB

\* C36: a poll cycle that the timer starts while no host is configured
\* changes nothing the instance or its sockets hold (no socket is created
\* or written to; the cache, this.socket and the timer are as before) and
\* logs nothing; init and configUpdated leave the interval timer armed
\* whether or not a host is configured; and a poll cycle that the timer
\* starts while a host is configured opens a new poll session and changes
\* nothing else.
C36_HostlessPollIsNoOp ==
    [][/\ last'.op = "pollTick" /\ ~HostSet(config)
          => UNCHANGED held /\ last'.log = "" /\ last'.status = ""
       /\ last'.op \in {"init", "configUpdated"}
          => pollTimer' /\ timers' = 1
       /\ last'.op = "pollTick" /\ HostSet(config)
          => /\ \E s \in DOMAIN socks :
                   /\ ~socks[s].open
                   /\ socks' = [socks EXCEPT ![s] = NewSock("poll", config, NoCode)]
             /\ UNCHANGED <<config, socket, pollTimer, timers, cache>>]_vars

\* The timer fired on an instance that was reconfigured without a host
\* after a poll cycle had completed: the timer is armed, the cache is kept
\* and no socket is open.
C36_Witness ==
    /\ last.op = "pollTick"
    /\ ~HostSet(config)
    /\ pollTimer /\ timers = 1
    /\ powerState # Undefined
    /\ OpenSocks = {}

=============================================================================
